---- MODULE Spec2Model ----
(***************************************************************************)
(* Model of the positioning programs of the repository:                    *)
(*   - the fingerprint k-nearest-neighbour localizer of OffOnFingerp.py    *)
(*     and FingerPrint2.py (specification Spec);                           *)
(*   - the anchor entry and the multilaterator of tp1.py                   *)
(*     (specification SpecNLat).                                           *)
(* Python floats are IEEE-754 binary64 values.  A float is modelled as a   *)
(* triple <<hi, lo, e>> standing for (hi * 2^26 + lo) * 2^e, with a 53-bit *)
(* mantissa (2^26 <= hi < 2^27), or <<0, 0, 0>> for 0.0; every arithmetic  *)
(* operation rounds to nearest, ties to even, as the hardware does.  Only  *)
(* non-negative floats occur in the modelled computations.                 *)
(***************************************************************************)
EXTENDS Integers, Sequences, FiniteSets, TLC

VARIABLES
  \* fingerprint localizer
  impl,        \* "OffOn" (OffOnFingerp.py) or "FP2" (FingerPrint2.py)
  grid,        \* the radio map: a sequence of records
  k,           \* FingerprintLocalization.k
  tm_rssi,     \* the live vector of the current call
  pc,          \* position in run_localization
  k_nearest,   \* result of find_k_nearest: <<distance, position>> pairs
  weights,     \* result of compute_weights
  estimate,    \* result of estimate_position
  err,         \* the exception raised, if any
  \* tp1.py
  emitters,    \* get_user_input: emitter positions entered so far
  distances,   \* get_user_input: distances entered so far
  dataset,     \* the value get_user_input returned
  npc,         \* position in tp1's main program
  x0,          \* NLateration.estimate_location: initial guess
  estimated_position,
  program,     \* the multilateration program that runs: "tp1", "3D" or "2D"
  \* estimation calls on one localizer
  built,       \* the radio map and k the localizer was constructed with
  callers,     \* each caller's call in progress: its local variables
  returned,    \* the <<live vector, result>> pairs of the calls that returned
  \* markov.py, ComplexMarkov.py
  module,      \* "markov" or "ComplexMarkov"
  nb_nodes,    \* the nb_nodes the Graph was built with
  nodes,       \* Graph._nodes: each Node's _total_nb_moves
  edges,       \* Graph._edges
  current_node_id,
  previous_node_id,
  outcome,     \* what the last call on the Graph returned or raised
  nb_true      \* the number of move calls that returned True

fpvars == <<impl, grid, k, tm_rssi, pc, k_nearest, weights, estimate, err>>
nlvars == <<emitters, distances, dataset, npc, x0, estimated_position>>
csvars == <<built, callers, returned>>
mkvars == <<module, nb_nodes, nodes, edges, current_node_id, previous_node_id,
            outcome, nb_true>>
vars == <<fpvars, nlvars, program, csvars, mkvars>>

----------------------------------------------------------------------------
(* Bounds and input sets *)

\* largest number of records entered into a radio map
MaxRecords == 3

\* largest number of emitters entered in get_user_input
MaxEmitters == 4

\* default neighbour count of FingerprintLocalization.__init__
DefaultK == 4

\* get_user_input falls back to the default dataset below this many emitters
MinEmitters == 4

Positions == {<<0, 4>>, <<4, 0>>}
RecordVectors == {<<0, 0>>, <<0, 1>>, <<1, 1>>}

\* the live vector of OffOnFingerp's main program
DefaultLive == <<-26, -42, -13, -46>>

\* live vectors of the entered map's length, a shorter one, and a longer one
LiveVectors == {<<0, 0>>, <<0, -1>>, <<1, 0>>, <<-1, -1>>, <<0>>, DefaultLive}

KValues == 0..(MaxRecords + 1)

Cellule(position, rssi) == [position |-> position, rssi |-> rssi]

\* the reference points of OffOnFingerp's LocalizationSystem
DefaultGrid ==
  << Cellule(<<0, 0>>, <<-38, -27, -54, -13>>),
     Cellule(<<4, 0>>, <<-74, -62, -48, -33>>),
     Cellule(<<8, 0>>, <<-13, -28, -12, -40>>),
     Cellule(<<0, 4>>, <<-34, -27, -38, -41>>),
     Cellule(<<4, 4>>, <<-46, -48, -72, -35>>),
     Cellule(<<8, 4>>, <<-45, -37, -20, -15>>),
     Cellule(<<0, 8>>, <<-17, -50, -44, -33>>),
     Cellule(<<4, 8>>, <<-27, -28, -32, -45>>),
     Cellule(<<8, 8>>, <<-30, -20, -60, -40>>) >>

\* tp1.py: numbers typed by the user are kept in tenths (0.5 is 5, 4.2 is 42)
DefaultDataset ==
  [emitters |-> << <<5, 5, 5>>, <<40, 0, 0>>, <<40, 50, 50>>, <<30, 30, 30>> >>,
   distances |-> <<30, 20, 42, 25>>]

EmitterInputs == {<<5, 5, 5>>, <<40, 0, 0>>}
DistanceInputs == {-10, 25}

----------------------------------------------------------------------------
(* IEEE-754 binary64 arithmetic on non-negative values *)

\* limb bases of the mantissa arithmetic
W == 2^26
L14 == 2^14

RECURSIVE BitLen(_)
BitLen(n) == IF n = 0 THEN 0 ELSE 1 + BitLen(n \div 2)

FZero == <<0, 0, 0>>
\* the value of an expression that raised ZeroDivisionError
FErr == <<-1, 0, 0>>
FIsErr(a) == a[1] < 0
FIsZero(a) == a[1] = 0

\* float(n) for an int 0 <= n < 2^27 (exact)
FromInt(n) ==
  IF n = 0 THEN FZero
  ELSE LET s == 27 - BitLen(n) IN <<n * 2^s, 0, -(26 + s)>>

FOne == FromInt(1)

\* (hi * W + lo, plus a positive fraction below 1 when sticky) * 2^e with
\* W <= hi < 2^31, rounded to 53 bits, ties to even
RoundPack(hi, lo, sticky, e) ==
  LET d == IF hi < 2 * W THEN 0 ELSE IF hi < 4 * W THEN 1
           ELSE IF hi < 8 * W THEN 2 ELSE IF hi < 16 * W THEN 3 ELSE 4
      p == 2^d
      rem == lo % p
      qlo0 == (lo \div p) + (hi % p) * (W \div p)
      qhi0 == hi \div p
      half == p \div 2
      up == d > 0 /\ (rem > half \/ (rem = half /\ (sticky \/ qlo0 % 2 = 1)))
      qlo1 == IF up THEN qlo0 + 1 ELSE qlo0
      qhi1 == qhi0 + (qlo1 \div W)
  IN IF qhi1 = 2 * W THEN <<W, 0, e + d + 1>> ELSE <<qhi1, qlo1 % W, e + d>>

\* One step of long division in base 2^14: for a remainder (rh, rl) below the
\* divisor (bh, bl), the digit q = (r * 2^14) div b and the new remainder.
\* The digit is estimated from the leading bits and corrected upwards.
DivCorrect(q, dh, dl, bh, bl) ==
  IF dh > bh \/ (dh = bh /\ dl >= bl)
  THEN IF dl >= bl THEN <<q + 1, dh - bh, dl - bl>>
       ELSE <<q + 1, dh - bh - 1, dl + W - bl>>
  ELSE <<q, dh, dl>>

DivSub(q, n2, n1, n0, bh, bl) ==
  LET x == (bl % 8192) * q
      y == (bl \div 8192) * q
      u == (bh % 8192) * q
      v == (bh \div 8192) * q
      p0r == x + (y % 8192) * 8192
      p0 == p0r % W
      p1r == u + (v % 8192) * 8192 + p0r \div W + y \div 8192
      p1 == p1r % W
      p2 == p1r \div W + v \div 8192
      d0 == IF n0 >= p0 THEN n0 - p0 ELSE n0 + W - p0
      k1 == IF n0 >= p0 THEN p1 ELSE p1 + 1
      d1 == IF n1 >= k1 THEN n1 - k1 ELSE n1 + W - k1
      k2 == IF n1 >= k1 THEN p2 ELSE p2 + 1
      d2 == n2 - k2
  IN DivCorrect(q, d2 * W + d1, d0, bh, bl)

DivStep(rh, rl, bh, bl) ==
  LET n0 == (rl % 4096) * L14
      n1 == (rh % 4096) * L14 + rl \div 4096
      n2 == rh \div 4096
      nt == n2 * 65536 + n1 \div 1024
      bt == bh \div 1024
  IN DivSub(nt \div (bt + 1), n2, n1, n0, bh, bl)

DivStep2(q0, s1, bh, bl) == <<q0, s1[1], DivStep(s1[2], s1[3], bh, bl)>>
DivStep3(s, bh, bl) == <<s[1], s[2], s[3][1], DivStep(s[3][2], s[3][3], bh, bl)>>
DivStep4(s, bh, bl) == <<s[1], s[2], s[3], s[4][1], DivStep(s[4][2], s[4][3], bh, bl)>>

\* quotient digits <<q0, d1, d2, d3, <<d4, remainder>>>> packed and rounded
DivPack(s, e) ==
  RoundPack(s[4] \div 4096 + s[3] * 4 + s[2] * 65536 + s[1] * 1073741824,
            s[5][1] + (s[4] % 4096) * L14,
            s[5][2] # 0 \/ s[5][3] # 0, e)

\* a / b; division by 0.0 raises ZeroDivisionError
FDiv(a, b) ==
  IF FIsErr(a) \/ FIsErr(b) \/ FIsZero(b) THEN FErr
  ELSE IF FIsZero(a) THEN FZero
  ELSE LET ge == a[1] > b[1] \/ (a[1] = b[1] /\ a[2] >= b[2])
           r0 == IF ~ge THEN <<a[1], a[2]>>
                 ELSE IF a[2] >= b[2] THEN <<a[1] - b[1], a[2] - b[2]>>
                 ELSE <<a[1] - b[1] - 1, a[2] + W - b[2]>>
       IN DivPack(DivStep4(DivStep3(DivStep2(IF ge THEN 1 ELSE 0,
                    DivStep(r0[1], r0[2], b[1], b[2]), b[1], b[2]), b[1], b[2]),
                    b[1], b[2]), a[3] - b[3] - 56)

\* a + b
FAdd(a, b) ==
  IF FIsErr(a) \/ FIsErr(b) THEN FErr
  ELSE IF FIsZero(a) THEN b
  ELSE IF FIsZero(b) THEN a
  ELSE LET x == IF a[3] >= b[3] THEN a ELSE b
           y == IF a[3] >= b[3] THEN b ELSE a
           sh == x[3] - y[3]
       IN IF sh >= 56 THEN x
          ELSE LET yhi == 4 * y[1] + (4 * y[2]) \div W
                   ylo == (4 * y[2]) % W
                   p == IF sh >= 26 THEN 2^(sh - 26) ELSE 2^sh
                   zhi == IF sh >= 26 THEN 0 ELSE yhi \div p
                   zlo == IF sh >= 26 THEN yhi \div p
                          ELSE (ylo \div p) + (yhi % p) * (W \div p)
                   st == IF sh >= 26 THEN (yhi % p # 0) \/ ylo # 0
                         ELSE ylo % p # 0
                   xhi == 4 * x[1] + (4 * x[2]) \div W
                   xlo == (4 * x[2]) % W
                   tlo == xlo + zlo
                   thi == xhi + zhi + tlo \div W
               IN RoundPack(thi, tlo % W, st, x[3] - 2)

\* a * b
FMul(a, b) ==
  IF FIsErr(a) \/ FIsErr(b) THEN FErr
  ELSE IF FIsZero(a) \/ FIsZero(b) THEN FZero
  ELSE LET a0 == a[2] % L14
           a1 == a[2] \div L14 + (a[1] % 4) * 4096
           a2 == (a[1] \div 4) % L14
           a3 == a[1] \div 65536
           b0 == b[2] % L14
           b1 == b[2] \div L14 + (b[1] % 4) * 4096
           b2 == (b[1] \div 4) % L14
           b3 == b[1] \div 65536
           c0 == a0 * b0
           c1 == a0 * b1 + a1 * b0 + c0 \div L14
           c2 == a0 * b2 + a1 * b1 + a2 * b0 + c1 \div L14
           c3 == a0 * b3 + a1 * b2 + a2 * b1 + a3 * b0 + c2 \div L14
           c4 == a1 * b3 + a2 * b2 + a3 * b1 + c3 \div L14
           c5 == a2 * b3 + a3 * b2 + c4 \div L14
           c6 == a3 * b3 + c5 \div L14
           lo == (c3 % L14) \div 256 + (c4 % L14) * 64 + (c5 % 64) * 1048576
           hi == (c5 % L14) \div 64 + c6 * 256
           st == c0 % L14 # 0 \/ c1 % L14 # 0 \/ c2 % L14 # 0 \/ c3 % 256 # 0
       IN RoundPack(hi, lo, st, a[3] + b[3] + 50)

\* a <= b and a < b
FLeq(a, b) ==
  IF FIsZero(a) THEN TRUE
  ELSE IF FIsZero(b) THEN FALSE
  ELSE a[3] < b[3]
       \/ (a[3] = b[3] /\ (a[1] < b[1] \/ (a[1] = b[1] /\ a[2] <= b[2])))

FLess(a, b) == FLeq(a, b) /\ a # b

\* sum(xs) of Python: 0 + xs[0] + xs[1] + ..., left to right
RECURSIVE PySum(_)
PySum(xs) ==
  IF xs = <<>> THEN FZero
  ELSE FAdd(PySum(SubSeq(xs, 1, Len(xs) - 1)), xs[Len(xs)])

----------------------------------------------------------------------------
(* The fingerprint localizer *)

Abs(x) == IF x < 0 THEN -x ELSE x

RECURSIVE SumInt(_)
SumInt(xs) == IF xs = <<>> THEN 0 ELSE xs[1] + SumInt(Tail(xs))

\* rssi2[i] for i in range(len(rssi1)) raises IndexError when rssi2 is shorter
rssi_difference_raises(rssi1, rssi2) == Len(rssi1) > Len(rssi2)

\* variant: the differences are added without abs
signed_difference(rssi1, rssi2) ==
  SumInt([i \in 1..Len(rssi1) |-> rssi1[i] - rssi2[i]])

\* sum(abs(rssi1[i] - rssi2[i]) for i in range(len(rssi1)))
rssi_difference(rssi1, rssi2) ==
  SumInt([i \in 1..Len(rssi1) |-> Abs(rssi1[i] - rssi2[i])])

\* variant: OffOnFingerp sorts with reverse=True
SortLess_reversed(im, x, y) ==
  IF im = "OffOn" THEN x[1] > y[1]
  ELSE \/ x[1] < y[1]
       \/ x[1] = y[1] /\ x[2][1] < y[2][1]
       \/ x[1] = y[1] /\ x[2][1] = y[2][1] /\ x[2][2] < y[2][2]

\* x < y for the elements (distance, position) of the list being sorted:
\* OffOnFingerp sorts with key x[0], FingerPrint2 compares the whole tuples
SortLess(im, x, y) ==
  IF im = "OffOn" THEN x[1] < y[1]
  ELSE \/ x[1] < y[1]
       \/ x[1] = y[1] /\ x[2][1] < y[2][1]
       \/ x[1] = y[1] /\ x[2][1] = y[2][1] /\ x[2][2] < y[2][2]

\* variant: the list is left in the radio map's order
unsorted(im, s) == s

\* list.sort is stable: elements that compare equal keep their order
RECURSIVE StableSort(_, _)
StableSort(im, s) ==
  IF s = <<>> THEN <<>>
  ELSE LET x == s[Len(s)]
           sorted == StableSort(im, SubSeq(s, 1, Len(s) - 1))
           NotAfter(y) == ~SortLess(im, x, y)
           After(y) == SortLess(im, x, y)
       IN SelectSeq(sorted, NotAfter) \o <<x>> \o SelectSeq(sorted, After)

\* s[:n] of Python
Slice(s, n) ==
  IF n >= 0 THEN SubSeq(s, 1, IF n < Len(s) THEN n ELSE Len(s))
  ELSE SubSeq(s, 1, IF Len(s) + n > 0 THEN Len(s) + n ELSE 0)

\* [(rssi_difference(cell.rssi, tm_rssi), cell.position) for cell in grid]
all_distances(g, tm) ==
  [i \in 1..Len(g) |-> <<rssi_difference(g[i].rssi, tm), g[i].position>>]

find_k_nearest(im, g, kk, tm) == Slice(StableSort(im, all_distances(g, tm)), kk)

\* variant: 1 / d without the test for d = 0
raw_weight_unguarded(d) == FDiv(FOne, FromInt(d))

\* variant: a neighbour at distance 0 gets a weight that dominates
raw_weight_dominant(d) == IF d # 0 THEN FDiv(FOne, FromInt(d)) ELSE FromInt(1000000)

\* (1 / d) if d != 0 else 1
raw_weight(d) == IF d # 0 THEN FDiv(FOne, FromInt(d)) ELSE FOne

\* [(1 / d) if d != 0 else 1 for d, _ in k_nearest]
RECURSIVE raw_weights(_)
raw_weights(kn) ==
  IF kn = <<>> THEN <<>>
  ELSE Append(raw_weights(SubSeq(kn, 1, Len(kn) - 1)), raw_weight(kn[Len(kn)][1]))

\* variant: the weights are returned without the division by their sum
normalize_no_division(raw, total) == raw

\* [w / total for w in weights]
RECURSIVE normalize(_, _)
normalize(raw, total) ==
  IF raw = <<>> THEN <<>>
  ELSE Append(normalize(SubSeq(raw, 1, Len(raw) - 1), total),
              FDiv(raw[Len(raw)], total))

\* variant: the weights are divided by the first weight, not by the sum
normalize_by_first(raw) == IF raw = <<>> THEN <<>> ELSE normalize(raw, raw[1])

\* [w / sum(weights) for w in weights]
sum_normalize(raw) == normalize(raw, PySum(raw))

compute_weights(kn) == sum_normalize(raw_weights(kn))

\* [w * coord[c] for w, (_, coord) in zip(weights, k_nearest)], c = 0 or 1
RECURSIVE products(_, _, _)
products(kn, ws, c) ==
  IF kn = <<>> \/ ws = <<>> THEN <<>>
  ELSE Append(products(SubSeq(kn, 1, Len(kn) - 1), SubSeq(ws, 1, Len(ws) - 1), c),
              FMul(ws[Len(ws)], FromInt(kn[Len(kn)][2][c + 1])))

estimate_position(kn, ws) ==
  <<PySum(products(kn, ws, 0)), PySum(products(kn, ws, 1))>>

----------------------------------------------------------------------------
(* tp1.py: anchor entry and multilateration *)

\* float(text) for a non-negative number given in tenths: the nearest double
FromTenths(t) == FDiv(FromInt(t), FromInt(10))

\* column c of the points, as floats
RECURSIVE column(_, _)
column(points, c) ==
  IF points = <<>> THEN <<>>
  ELSE Append(column(SubSeq(points, 1, Len(points) - 1), c),
              FromTenths(points[Len(points)][c]))

\* np.mean(points, axis=0): the rows are added in order, then divided by their number
mean_axis0(points) ==
  [c \in 1..3 |-> FDiv(PySum(column(points, c)), FromInt(Len(points)))]

\* scipy's least_squares is outside the repository: it returns some point,
\* here the initial guess or one of the anchors
solver_outputs(points, start) ==
  {start} \cup {[c \in 1..3 |-> FromTenths(points[i][c])] : i \in 1..Len(points)}

----------------------------------------------------------------------------
(* State machine of a localization run (OffOnFingerp.py, FingerPrint2.py) *)

InitFP ==
  /\ grid = <<>>
  /\ k = DefaultK
  /\ tm_rssi = <<>>
  /\ pc = "init"
  /\ k_nearest = <<>>
  /\ weights = <<>>
  /\ estimate = <<FZero, FZero>>
  /\ err = "none"

InitNL ==
  /\ emitters = <<>>
  /\ distances = <<>>
  /\ dataset = [emitters |-> <<>>, distances |-> <<>>]
  /\ npc = "input"
  /\ x0 = <<FZero, FZero, FZero>>
  /\ estimated_position = <<FZero, FZero, FZero>>

InitCS ==
  /\ built = [grid |-> <<>>, k |-> DefaultK]
  /\ callers = <<>>
  /\ returned = {}

InitMK ==
  /\ module = "markov"
  /\ nb_nodes = 0
  /\ nodes = <<>>
  /\ edges = <<>>
  /\ current_node_id = 0
  /\ previous_node_id = "None"
  /\ outcome = "none"
  /\ nb_true = 0

Init ==
  /\ impl \in {"OffOn", "FP2"}
  /\ InitFP
  /\ InitNL
  /\ program = "tp1"
  /\ InitCS
  /\ InitMK

\* one more reference record is put into the radio map
AddRecord(position, rssi) ==
  /\ pc = "init"
  /\ Len(grid) < MaxRecords
  /\ grid' = Append(grid, Cellule(position, rssi))
  /\ UNCHANGED <<impl, k, tm_rssi, pc, k_nearest, weights, estimate, err>>
  /\ UNCHANGED <<nlvars, program, csvars, mkvars>>

\* FingerPrint2: a record with a wrong number of RSSI values restarts the entry
RestartGrid ==
  /\ pc = "init"
  /\ impl = "FP2"
  /\ grid' = <<>>
  /\ UNCHANGED <<impl, k, tm_rssi, pc, k_nearest, weights, estimate, err>>
  /\ UNCHANGED <<nlvars, program, csvars, mkvars>>

\* OffOnFingerp: LocalizationSystem.initialize_grid
initialize_grid ==
  /\ pc = "init"
  /\ impl = "OffOn"
  /\ grid = <<>>
  /\ grid' = DefaultGrid
  /\ UNCHANGED <<impl, k, tm_rssi, pc, k_nearest, weights, estimate, err>>
  /\ UNCHANGED <<nlvars, program, csvars, mkvars>>

\* FingerprintLocalization(grid, k)
Construct(kk) ==
  /\ pc = "init"
  /\ k' = kk
  /\ pc' = "ready"
  /\ UNCHANGED <<impl, grid, tm_rssi, k_nearest, weights, estimate, err>>
  /\ UNCHANGED <<nlvars, program, csvars, mkvars>>

FindKNearest(tm) ==
  /\ pc = "ready"
  /\ tm_rssi' = tm
  /\ IF \E i \in 1..Len(grid) : rssi_difference_raises(grid[i].rssi, tm)
     THEN /\ pc' = "raised"
          /\ err' = "IndexError"
          /\ UNCHANGED k_nearest
     ELSE /\ pc' = "found"
          /\ k_nearest' = find_k_nearest(impl, grid, k, tm)
          /\ UNCHANGED err
  /\ UNCHANGED <<impl, grid, k, weights, estimate>>
  /\ UNCHANGED <<nlvars, program, csvars, mkvars>>

ComputeWeights ==
  /\ pc = "found"
  /\ LET ws == compute_weights(k_nearest)
     IN IF \E i \in 1..Len(ws) : FIsErr(ws[i])
        THEN /\ pc' = "raised"
             /\ err' = "ZeroDivisionError"
             /\ UNCHANGED weights
        ELSE /\ pc' = "weighted"
             /\ weights' = ws
             /\ UNCHANGED err
  /\ UNCHANGED <<impl, grid, k, tm_rssi, k_nearest, estimate>>
  /\ UNCHANGED <<nlvars, program, csvars, mkvars>>

EstimatePosition ==
  /\ pc = "weighted"
  /\ estimate' = estimate_position(k_nearest, weights)
  /\ pc' = "done"
  /\ UNCHANGED <<impl, grid, k, tm_rssi, k_nearest, weights, err>>
  /\ UNCHANGED <<nlvars, program, csvars, mkvars>>

Next ==
  \/ \E p \in Positions, r \in RecordVectors : AddRecord(p, r)
  \/ RestartGrid
  \/ initialize_grid
  \/ \E kk \in KValues : Construct(kk)
  \/ \E tm \in LiveVectors : FindKNearest(tm)
  \/ ComputeWeights
  \/ EstimatePosition

Spec == Init /\ [][Next]_vars

----------------------------------------------------------------------------
(* State machine of tp1.py's main program *)

InitNLat ==
  /\ impl = "OffOn"
  /\ InitFP
  /\ InitNL
  /\ program = "tp1"
  /\ InitCS
  /\ InitMK

\* "yes": the default dataset is returned at once
UseDefault ==
  /\ npc = "input"
  /\ emitters = <<>>
  /\ dataset' = DefaultDataset
  /\ npc' = "returned"
  /\ UNCHANGED <<emitters, distances, x0, estimated_position>>
  /\ UNCHANGED <<fpvars, program, csvars, mkvars>>

\* a line of four numbers: x y z distance
EnterEmitter(p, d) ==
  /\ npc = "input"
  /\ Len(emitters) < MaxEmitters
  /\ emitters' = Append(emitters, p)
  /\ distances' = Append(distances, d)
  /\ UNCHANGED <<dataset, npc, x0, estimated_position>>
  /\ UNCHANGED <<fpvars, program, csvars, mkvars>>

\* a line that is not four numbers is reported and skipped
EnterInvalid ==
  /\ npc = "input"
  /\ UNCHANGED nlvars
  /\ UNCHANGED <<fpvars, program, csvars, mkvars>>

\* "done"
FinishInput ==
  /\ npc = "input"
  /\ dataset' = IF Len(emitters) < MinEmitters THEN DefaultDataset
                ELSE [emitters |-> emitters, distances |-> distances]
  /\ npc' = "returned"
  /\ UNCHANGED <<emitters, distances, x0, estimated_position>>
  /\ UNCHANGED <<fpvars, program, csvars, mkvars>>

\* Receiver.estimate_position -> NLateration(points, distances).estimate_location
EstimateLocation ==
  /\ npc = "returned"
  /\ x0' = mean_axis0(dataset.emitters)
  /\ estimated_position' \in solver_outputs(dataset.emitters, x0')
  /\ npc' = "estimated"
  /\ UNCHANGED <<emitters, distances, dataset>>
  /\ UNCHANGED <<fpvars, program, csvars, mkvars>>

NextNLat ==
  \/ UseDefault
  \/ \E p \in EmitterInputs, d \in DistanceInputs : EnterEmitter(p, d)
  \/ EnterInvalid
  \/ FinishInput
  \/ EstimateLocation

SpecNLat == InitNLat /\ [][NextNLat]_vars

----------------------------------------------------------------------------
(* The three multilateration programs: tp1.py, 3DResolutionNLat.py and      *)
(* 2DgraphicalNLat.py (SpecSolvers).  The two scripts have no input: their  *)
(* emitters and their initial guess are written in the script.              *)

\* the emitters of 2DgraphicalNLat.py, in tenths
Dataset2D ==
  [emitters |-> << <<5, 5>>, <<40, 0>>, <<40, 50>>, <<30, 30>> >>,
   distances |-> <<30, 20, 42, 25>>]

\* initial_guess = (2, 2, 2) and initial_guess = (2, 2)
initial_guess_3d == <<FromInt(2), FromInt(2), FromInt(2)>>
initial_guess_2d == <<FromInt(2), FromInt(2)>>

\* a point given in tenths, as floats
as_floats(point) == [c \in 1..Len(point) |-> FromTenths(point[c])]

\* result.x of least_squares(distance_error, initial_guess, args=(emitters,)):
\* some point, here the initial guess or one of the emitters
script_outputs(points, start) ==
  {start} \cup {as_floats(points[i]) : i \in 1..Len(points)}

InitSolvers ==
  /\ impl = "OffOn"
  /\ InitFP
  /\ InitNL
  /\ program \in {"tp1", "3D", "2D"}
  /\ InitCS
  /\ InitMK

\* tp1.py's main program
RunTp1 ==
  /\ program = "tp1"
  /\ NextNLat

\* 3DResolutionNLat.py
Run3DResolutionNLat ==
  /\ program = "3D"
  /\ npc = "input"
  /\ dataset' = DefaultDataset
  /\ x0' = initial_guess_3d
  /\ estimated_position' \in script_outputs(DefaultDataset.emitters, initial_guess_3d)
  /\ npc' = "estimated"
  /\ UNCHANGED <<emitters, distances>>
  /\ UNCHANGED <<fpvars, program, csvars, mkvars>>

\* 2DgraphicalNLat.py
Run2DgraphicalNLat ==
  /\ program = "2D"
  /\ npc = "input"
  /\ dataset' = Dataset2D
  /\ x0' = initial_guess_2d
  /\ estimated_position' \in script_outputs(Dataset2D.emitters, initial_guess_2d)
  /\ npc' = "estimated"
  /\ UNCHANGED <<emitters, distances>>
  /\ UNCHANGED <<fpvars, program, csvars, mkvars>>

NextSolvers ==
  \/ RunTp1
  \/ Run3DResolutionNLat
  \/ Run2DgraphicalNLat

SpecSolvers == InitSolvers /\ [][NextSolvers]_vars

----------------------------------------------------------------------------
(* Estimation calls on one localizer: one caller calling again and again    *)
(* (SpecCalls), or several callers whose calls interleave (SpecConcurrent). *)
(* A step of a caller is one method call; the methods read self.grid and    *)
(* self.k and write only their own local variables.                         *)

Callers == {1, 2}

CallRecords == {Cellule(p, r) : p \in Positions, r \in RecordVectors}
CallGrids ==
  {<<a>> : a \in CallRecords} \cup {<<a, b>> : a, b \in CallRecords}
CallLives == {<<0, 0>>, <<0, -1>>, <<1, 0>>, <<0>>}
CallKValues == {0, 1, 2, 3}

\* the local variables of a caller that is not in a call
Idle ==
  [pc |-> "idle", tm_rssi |-> <<>>, k_nearest |-> <<>>, weights |-> <<>>,
   estimate |-> <<FZero, FZero>>, err |-> "none"]

\* what a call gave its caller
Result(call) == <<call.k_nearest, call.weights, call.estimate, call.err>>

\* variant: the radio map itself is sorted by distance to the live vector
grid_sorted_in_place(im, g, tm) ==
  LET keyed == [i \in 1..Len(g) |->
                  <<rssi_difference(g[i].rssi, tm), g[i].position, g[i].rssi>>]
      sorted == StableSort(im, keyed)
  IN [i \in 1..Len(g) |-> Cellule(sorted[i][2], sorted[i][3])]

\* self.grid after find_k_nearest: the comprehension builds a new list,
\* distances, and it is that list which is sorted and sliced
grid_after_find_k_nearest(im, g, tm) == g

InitLocalizer(cs) ==
  /\ impl \in {"OffOn", "FP2"}
  /\ grid \in CallGrids
  /\ k \in CallKValues
  /\ built = [grid |-> grid, k |-> k]
  /\ callers = [c \in cs |-> Idle]
  /\ returned = {}
  /\ tm_rssi = <<>>
  /\ pc = "ready"
  /\ k_nearest = <<>>
  /\ weights = <<>>
  /\ estimate = <<FZero, FZero>>
  /\ err = "none"
  /\ InitNL
  /\ program = "tp1"
  /\ InitMK

\* caller c starts run_localization with the live vector tm
Call(c, tm) ==
  /\ callers[c].pc = "idle"
  /\ callers' = [callers EXCEPT ![c] = [Idle EXCEPT !.pc = "called", !.tm_rssi = tm]]
  /\ UNCHANGED <<impl, grid, k, built, returned>>
  /\ UNCHANGED <<tm_rssi, pc, k_nearest, weights, estimate, err>>
  /\ UNCHANGED <<nlvars, program, mkvars>>

\* k_nearest = self.localizer.find_k_nearest(tm_rssi)
CallFindKNearest(c) ==
  /\ callers[c].pc = "called"
  /\ LET tm == callers[c].tm_rssi
     IN IF \E i \in 1..Len(grid) : rssi_difference_raises(grid[i].rssi, tm)
        THEN /\ callers' = [callers EXCEPT ![c].pc = "raised",
                                           ![c].err = "IndexError"]
             /\ UNCHANGED grid
        ELSE /\ callers' = [callers EXCEPT ![c].pc = "found",
                              ![c].k_nearest = find_k_nearest(impl, grid, k, tm)]
             /\ grid' = grid_after_find_k_nearest(impl, grid, tm)
  /\ UNCHANGED <<impl, k, built, returned>>
  /\ UNCHANGED <<tm_rssi, pc, k_nearest, weights, estimate, err>>
  /\ UNCHANGED <<nlvars, program, mkvars>>

\* weights = self.localizer.compute_weights(k_nearest)
CallComputeWeights(c) ==
  /\ callers[c].pc = "found"
  /\ LET ws == compute_weights(callers[c].k_nearest)
     IN IF \E i \in 1..Len(ws) : FIsErr(ws[i])
        THEN callers' = [callers EXCEPT ![c].pc = "raised",
                                        ![c].err = "ZeroDivisionError"]
        ELSE callers' = [callers EXCEPT ![c].pc = "weighted", ![c].weights = ws]
  /\ UNCHANGED <<impl, grid, k, built, returned>>
  /\ UNCHANGED <<tm_rssi, pc, k_nearest, weights, estimate, err>>
  /\ UNCHANGED <<nlvars, program, mkvars>>

\* estimated_x, estimated_y = self.localizer.estimate_position(k_nearest, weights)
CallEstimatePosition(c) ==
  /\ callers[c].pc = "weighted"
  /\ callers' = [callers EXCEPT ![c].pc = "done",
                   ![c].estimate = estimate_position(callers[c].k_nearest,
                                                     callers[c].weights)]
  /\ UNCHANGED <<impl, grid, k, built, returned>>
  /\ UNCHANGED <<tm_rssi, pc, k_nearest, weights, estimate, err>>
  /\ UNCHANGED <<nlvars, program, mkvars>>

\* the call is over and its local variables are gone; the caller notes
\* the result
Return(c) ==
  /\ callers[c].pc \in {"done", "raised"}
  /\ returned' = returned \cup {<<callers[c].tm_rssi, Result(callers[c])>>}
  /\ callers' = [callers EXCEPT ![c] = Idle]
  /\ UNCHANGED <<impl, grid, k, built>>
  /\ UNCHANGED <<tm_rssi, pc, k_nearest, weights, estimate, err>>
  /\ UNCHANGED <<nlvars, program, mkvars>>

\* the call is over and its local variables are gone
Finish(c) ==
  /\ callers[c].pc \in {"done", "raised"}
  /\ callers' = [callers EXCEPT ![c] = Idle]
  /\ UNCHANGED <<impl, grid, k, built, returned>>
  /\ UNCHANGED <<tm_rssi, pc, k_nearest, weights, estimate, err>>
  /\ UNCHANGED <<nlvars, program, mkvars>>

InitCalls == InitLocalizer({1})

NextCalls ==
  \/ \E tm \in CallLives : Call(1, tm)
  \/ CallFindKNearest(1)
  \/ CallComputeWeights(1)
  \/ CallEstimatePosition(1)
  \/ Return(1)

SpecCalls == InitCalls /\ [][NextCalls]_vars

InitConcurrent == InitLocalizer(Callers)

NextConcurrent ==
  \/ \E c \in Callers, tm \in CallLives : Call(c, tm)
  \/ \E c \in Callers : CallFindKNearest(c)
  \/ \E c \in Callers : CallComputeWeights(c)
  \/ \E c \in Callers : CallEstimatePosition(c)
  \/ \E c \in Callers : Finish(c)

SpecConcurrent == InitConcurrent /\ [][NextConcurrent]_vars

----------------------------------------------------------------------------
(* The transition graphs of markov.py and ComplexMarkov.py (SpecMarkov).    *)
(* Node ids are those of the code, 0 .. nb_nodes - 1; node id is element    *)
(* id + 1 of nodes and of edges.                                            *)

\* largest number of moves counted on a graph
MaxMoves == 4

\* markov.py tests ids against the literal 5, whatever nb_nodes is
PageLimit == 5

NodeCounts == {2, 5, 6}
MoveIds == -1..6
\* the ids __str__ and draw_graph may pass to node_stats
StatIds == 0..5

\* the bound move and predict_next_move use for ids
id_limit == IF module = "markov" THEN PageLimit ELSE nb_nodes

\* node_stats raises IndexError when it reads a node or an edge that does
\* not exist
node_stats_raises(origin_id, destination_id) ==
  \/ origin_id >= nb_nodes
  \/ nodes[origin_id + 1] # 0 /\ destination_id >= nb_nodes

\* node_stats(origin_id, destination_id), for ids that do not raise
node_stats(origin_id, destination_id) ==
  LET total_moves == nodes[origin_id + 1]
      moves == edges[origin_id + 1][destination_id + 1]
  IN IF total_moves = 0 THEN <<0, FZero>>
     ELSE <<moves, FDiv(FromInt(moves * 100), FromInt(total_moves))>>

\* max(stats): the first of the largest elements
RECURSIVE max_stat(_)
max_stat(stats) ==
  IF Len(stats) = 1 THEN stats[1]
  ELSE LET m == max_stat(SubSeq(stats, 1, Len(stats) - 1))
       IN IF FLess(m, stats[Len(stats)]) THEN stats[Len(stats)] ELSE m

\* stats.index(x): the first index, from 0, at which x stands
index_of(stats, x) ==
  (CHOOSE j \in 1..Len(stats) :
     stats[j] = x /\ \A i \in 1..(j - 1) : stats[i] # x) - 1

\* predict_next_move(): None, a node id, or an IndexError
predict_next_move ==
  IF \E j \in 0..(id_limit - 1) : node_stats_raises(current_node_id, j)
  THEN [returns |-> "IndexError", id |-> -1]
  ELSE LET stats == [j \in 1..id_limit |-> node_stats(current_node_id, j - 1)[2]]
       IN IF \A j \in 1..id_limit : stats[j] = FZero
          THEN [returns |-> "None", id |-> -1]
          ELSE [returns |-> "node", id |-> index_of(stats, max_stat(stats))]

InitMarkov ==
  /\ impl = "OffOn"
  /\ InitFP
  /\ InitNL
  /\ program = "tp1"
  /\ InitCS
  /\ module \in {"markov", "ComplexMarkov"}
  /\ nb_nodes \in NodeCounts
  /\ nodes = [i \in 1..nb_nodes |-> 0]
  /\ edges = [i \in 1..nb_nodes |-> [j \in 1..nb_nodes |-> 0]]
  /\ current_node_id = 0
  /\ previous_node_id = "None"
  /\ outcome = <<"Graph">>
  /\ nb_true = 0

\* Graph.move(next_node_id)
move(next_node_id) ==
  /\ SumInt(nodes) < MaxMoves
  /\ IF 0 <= next_node_id /\ next_node_id < id_limit
     THEN /\ nodes' = [nodes EXCEPT ![current_node_id + 1] = @ + 1]
          /\ IF next_node_id >= nb_nodes
             THEN \* self._edges[...][next_node_id] raises after add_move
                  /\ outcome' = <<"move", next_node_id, "IndexError">>
                  /\ UNCHANGED <<edges, current_node_id, previous_node_id, nb_true>>
             ELSE /\ edges' = [edges EXCEPT
                                 ![current_node_id + 1][next_node_id + 1] = @ + 1]
                  /\ previous_node_id' = IF module = "ComplexMarkov"
                                         THEN current_node_id
                                         ELSE previous_node_id
                  /\ current_node_id' = next_node_id
                  /\ outcome' = <<"move", next_node_id, "True">>
                  /\ nb_true' = nb_true + 1
     ELSE /\ outcome' = <<"move", next_node_id, "False">>
          /\ UNCHANGED <<nodes, edges, current_node_id, previous_node_id, nb_true>>
  /\ UNCHANGED <<module, nb_nodes>>
  /\ UNCHANGED <<fpvars, nlvars, program, csvars>>

\* Graph.node_stats(origin_id, destination_id), as __str__ and draw_graph call it
NodeStats(origin_id, destination_id) ==
  /\ origin_id < id_limit
  /\ destination_id < id_limit
  /\ outcome' = IF node_stats_raises(origin_id, destination_id)
                THEN <<"node_stats", origin_id, destination_id, "IndexError">>
                ELSE <<"node_stats", origin_id, destination_id,
                       node_stats(origin_id, destination_id)>>
  /\ UNCHANGED <<module, nb_nodes, nodes, edges, current_node_id,
                 previous_node_id, nb_true>>
  /\ UNCHANGED <<fpvars, nlvars, program, csvars>>

\* Graph.predict_next_move()
PredictNextMove ==
  /\ outcome' = <<"predict_next_move", predict_next_move>>
  /\ UNCHANGED <<module, nb_nodes, nodes, edges, current_node_id,
                 previous_node_id, nb_true>>
  /\ UNCHANGED <<fpvars, nlvars, program, csvars>>

NextMarkov ==
  \/ \E id \in MoveIds : move(id)
  \/ \E i, j \in StatIds : NodeStats(i, j)
  \/ PredictNextMove

SpecMarkov == InitMarkov /\ [][NextMarkov]_vars

----------------------------------------------------------------------------
(* Vocabulary of the properties *)

\* the call's inputs satisfy the localizer's contract
LengthsMatch == \A i \in 1..Len(grid) : Len(grid[i].rssi) = Len(tm_rssi)
LengthMismatch == \E i \in 1..Len(grid) : Len(grid[i].rssi) # Len(tm_rssi)
ValidK == 1 <= k /\ k <= Len(grid)
ValidCall == Len(grid) >= 1 /\ ValidK /\ LengthsMatch

\* find_k_nearest has been called
Called == pc \in {"found", "weighted", "done", "raised"}

\* 1 - 2^-30 and 1 + 2^-30; 2^-30 < 1e-9
OneMinusTol == <<2^27 - 1, 2^26 - 2^23, -53>>
OnePlusTol == <<2^26, 2^22, -52>>

\* a position as a pair of floats
PosF(p) == <<FromInt(p[1]), FromInt(p[2])>>

\* the L1 distance of two vectors of the same length
RECURSIVE L1(_, _)
L1(u, v) ==
  IF u = <<>> \/ v = <<>> THEN 0
  ELSE (IF Head(u) >= Head(v) THEN Head(u) - Head(v) ELSE Head(v) - Head(u))
       + L1(Tail(u), Tail(v))

\* the (distance, position) pair of record i
PairOf(i) == <<L1(grid[i].rssi, tm_rssi), grid[i].position>>

Occurrences(s, x) == Cardinality({j \in 1..Len(s) : s[j] = x})

\* position p comes before position q in the order of Python tuples
PosBefore(p, q) == p[1] < q[1] \/ (p[1] = q[1] /\ p[2] <= q[2])

\* the records whose signal vector equals the live vector
Matching == {i \in 1..Len(grid) : grid[i].rssi = tm_rssi}

\* the smallest and the largest coordinate c among the selected neighbours
MinCoord(c) ==
  CHOOSE m \in {k_nearest[i][2][c] : i \in 1..Len(k_nearest)} :
    \A i \in 1..Len(k_nearest) : m <= k_nearest[i][2][c]
MaxCoord(c) ==
  CHOOSE m \in {k_nearest[i][2][c] : i \in 1..Len(k_nearest)} :
    \A i \in 1..Len(k_nearest) : m >= k_nearest[i][2][c]

\* the raw weight of a neighbour at distance d, as the specification states it
RawWeightOf(d) == IF d = 0 THEN FOne ELSE FDiv(FOne, FromInt(d))

\* the sum of the raw weights of the first n neighbours
RECURSIVE RawTotal(_)
RawTotal(n) ==
  IF n = 0 THEN FZero ELSE FAdd(RawTotal(n - 1), RawWeightOf(k_nearest[n][1]))

\* the sum of weight times coordinate c over the first n neighbours
RECURSIVE WeightedSum(_, _)
WeightedSum(c, n) ==
  IF n = 0 THEN FZero
  ELSE FAdd(WeightedSum(c, n - 1), FMul(weights[n], FromInt(k_nearest[n][2][c])))

ScenarioCall == grid = DefaultGrid /\ tm_rssi = DefaultLive /\ k = 4

----------------------------------------------------------------------------
(* Properties *)

\* C1, as stated: for every valid call the weights returned by
\* compute_weights sum to exactly 1 and each weight is strictly positive.
\* This fails: the floating-point sum of the normalized weights can be
\* 1.0000000000000002 (neighbours at distances 1, 2, 3).
C1_SumExactlyOne ==
  (pc \in {"weighted", "done"} /\ ValidCall) =>
    /\ PySum(weights) = FOne
    /\ \A i \in 1..Len(weights) : FLess(FZero, weights[i])

\* C1, amended: for every valid call compute_weights returns k weights,
\* each strictly positive, whose sum differs from 1 by at most 2^-30
\* (less than 1e-9).
C1_SumWithinTolerance ==
  (pc \in {"weighted", "done"} /\ ValidCall) =>
    /\ Len(weights) = k
    /\ FLeq(OneMinusTol, PySum(weights))
    /\ FLeq(PySum(weights), OnePlusTol)
    /\ \A i \in 1..Len(weights) : FLess(FZero, weights[i])

\* a valid call with three neighbours whose weights do not sum to exactly 1
C1_Witness ==
  /\ pc = "weighted"
  /\ ValidCall
  /\ k = 3
  /\ PySum(weights) # FOne

\* C2, as stated: with k = 1, for every record R whose signal vector equals
\* the live vector the estimate is exactly R's position, even when another
\* record has the same signal vector at a different position.  This fails:
\* of two such records only one position can be returned.
C2_ExactMatchAnyRecord ==
  (pc = "done" /\ k = 1) =>
    \A i \in Matching : estimate = PosF(grid[i].position)

\* C2, amended: with k = 1 and a record whose signal vector equals the live
\* vector, the estimate is exactly the position of one such record: the first
\* of them in the radio map (OffOnFingerp) or the one with the smallest
\* position (FingerPrint2); it is R's position whenever all such records
\* share R's position.
C2_ExactMatchFirstRecord ==
  (pc = "done" /\ k = 1 /\ Matching # {}) =>
    /\ \E i \in Matching :
         /\ estimate = PosF(grid[i].position)
         /\ impl = "OffOn" => \A j \in Matching : i <= j
         /\ impl = "FP2" =>
              \A j \in Matching : PosBefore(grid[i].position, grid[j].position)
    /\ \A i \in Matching :
         (\A j \in Matching : grid[j].position = grid[i].position)
           => estimate = PosF(grid[i].position)

\* k = 1, two records with the live vector at different positions, and a
\* record with another vector in front of them
C2_Witness ==
  /\ pc = "done"
  /\ k = 1
  /\ Len(grid) = 3
  /\ 1 \notin Matching
  /\ Matching = {2, 3}
  /\ grid[2].position # grid[3].position
  /\ estimate = PosF(grid[3].position)

\* C3: when k is greater than the number of records the call is rejected;
\* find_k_nearest does not return with fewer than k neighbours.
C3_LargeKRejected ==
  (Called /\ LengthsMatch /\ k > Len(grid)) => pc = "raised"

\* an estimate from 1 neighbour for k = 2
C3_Witness ==
  /\ pc = "done"
  /\ Len(grid) = 1
  /\ k = 2
  /\ LengthsMatch
  /\ Len(k_nearest) = 1
  /\ estimate = PosF(grid[1].position)

\* C4: for k = 0 a validation error is raised and the pipeline never
\* completes with a position.
C4_ZeroKRejected ==
  (Called /\ Len(grid) >= 1 /\ LengthsMatch /\ k = 0)
    => (pc = "raised" /\ err = "ValidationError")

\* the origin returned for k = 0
C4_Witness ==
  /\ pc = "done"
  /\ k = 0
  /\ Len(grid) >= 1
  /\ LengthsMatch
  /\ estimate = <<FZero, FZero>>

\* C5: when the live vector's length differs from a record's, the call is
\* rejected with a validation error: no estimate from a truncated
\* comparison, no IndexError.
C5_LengthMismatchRejected ==
  (Called /\ ValidK /\ LengthMismatch)
    => (pc = "raised" /\ err = "ValidationError")

\* an estimate computed although the live vector is longer than the records'
C5_Witness ==
  /\ pc = "done"
  /\ ValidK
  /\ \A i \in 1..Len(grid) : Len(grid[i].rssi) < Len(tm_rssi)

\* C6: an anchor with a negative distance is rejected before any solve:
\* no position is estimated from a dataset holding a negative distance.
C6_NegativeDistanceRejected ==
  npc = "estimated" =>
    \A i \in 1..Len(dataset.distances) : dataset.distances[i] >= 0

\* a position estimated from four entered anchors, one at a negative distance
C6_Witness ==
  /\ npc = "estimated"
  /\ dataset.emitters = emitters
  /\ \E i \in 1..Len(dataset.distances) : dataset.distances[i] < 0

\* C7: for a valid call find_k_nearest returns exactly k (distance, position)
\* pairs, one per selected record, each distance being the L1 distance of the
\* record's vector and the live vector, in non-decreasing order of distance,
\* and every record not selected is at least as far as the last pair; the
\* call raises only when the live vector is shorter than a record's.
C7_KNearestSorted ==
  /\ (pc = "found" /\ ValidCall) =>
       /\ Len(k_nearest) = k
       /\ \A j \in 1..(Len(k_nearest) - 1) : k_nearest[j][1] <= k_nearest[j + 1][1]
       /\ \E S \in SUBSET (1..Len(grid)) :
            /\ Cardinality(S) = k
            /\ \A j \in 1..Len(k_nearest) :
                 Occurrences(k_nearest, k_nearest[j])
                   = Cardinality({i \in S : PairOf(i) = k_nearest[j]})
            /\ \A i \in S : \E j \in 1..Len(k_nearest) : k_nearest[j] = PairOf(i)
            /\ \A i \in (1..Len(grid)) \ S :
                 PairOf(i)[1] >= k_nearest[Len(k_nearest)][1]
  /\ (pc = "raised" /\ err = "IndexError") => LengthMismatch

\* two of three records selected, the radio map not being in order of distance
C7_Witness ==
  /\ pc = "found"
  /\ ValidCall
  /\ Len(grid) = 3
  /\ k = 2
  /\ PairOf(1)[1] > PairOf(3)[1]
  /\ \E i \in 1..3 : grid[i].rssi[1] < tm_rssi[1]

\* C8: each weight is the raw weight (1/distance, or 1 at distance 0) divided
\* by the sum of the raw weights, the estimate is the sum over the selected
\* neighbours of weight times position (each operation a floating-point
\* operation, the sums taken in order), and no division by zero occurs.
C8_WeightedCentroid ==
  /\ err # "ZeroDivisionError"
  /\ pc \in {"weighted", "done"} =>
       /\ Len(weights) = Len(k_nearest)
       /\ \A i \in 1..Len(weights) :
            weights[i] = FDiv(RawWeightOf(k_nearest[i][1]), RawTotal(Len(k_nearest)))
  /\ pc = "done" =>
       /\ estimate[1] = WeightedSum(1, Len(k_nearest))
       /\ estimate[2] = WeightedSum(2, Len(k_nearest))

\* an estimate from a neighbour at distance 0 and neighbours farther away
C8_Witness ==
  /\ pc = "done"
  /\ ValidCall
  /\ k >= 2
  /\ k_nearest[1][1] = 0
  /\ k_nearest[2][1] > 1
  /\ k_nearest[1][2] # k_nearest[2][2]

\* C9, as stated: for every valid call each coordinate of the estimate is
\* between the smallest and the largest of that coordinate over the selected
\* records.  This fails by one unit in the last place: three neighbours with
\* x = 4 at distances 1, 2, 3 give x = 4.000000000000001.
C9_WithinBox ==
  (pc = "done" /\ ValidCall) =>
    \A c \in 1..2 :
      /\ FLeq(FromInt(MinCoord(c)), estimate[c])
      /\ FLeq(estimate[c], FromInt(MaxCoord(c)))

\* C9, amended: for every valid call each coordinate of the estimate is
\* between the smallest and the largest of that coordinate over the selected
\* records up to a relative error of 2^-30; when the selected records lie on
\* the line x + y = 4 so does the estimate, up to the same error; and for the
\* 9-record map with live vector [-26,-42,-13,-46] and k = 4 the neighbours
\* are (8,0), (4,8), (0,4), (0,8) and the estimate
\* (3.749064077583299, 4.667196302583787) lies inside their hull
\* x + 2y >= 8, 2x + y <= 16, y <= 8, x >= 0.
C9_WithinHullUpToRounding ==
  /\ (pc = "done" /\ ValidCall) =>
       \A c \in 1..2 :
         /\ FLeq(FMul(FromInt(MinCoord(c)), OneMinusTol), estimate[c])
         /\ FLeq(estimate[c], FMul(FromInt(MaxCoord(c)), OnePlusTol))
  /\ (pc = "done" /\ ValidCall
        /\ \A i \in 1..Len(k_nearest) : k_nearest[i][2][1] + k_nearest[i][2][2] = 4) =>
       /\ FLeq(FMul(FromInt(4), OneMinusTol), FAdd(estimate[1], estimate[2]))
       /\ FLeq(FAdd(estimate[1], estimate[2]), FMul(FromInt(4), OnePlusTol))
  /\ (pc = "done" /\ ScenarioCall) =>
       /\ k_nearest = << <<34, <<8, 0>> >>, <<35, <<4, 8>> >>,
                         <<53, <<0, 4>> >>, <<61, <<0, 8>> >> >>
       /\ estimate = << <<125797715, 43950369, -51>>, <<78302560, 32403485, -50>> >>
       /\ FLeq(FromInt(8), FAdd(estimate[1], FMul(FromInt(2), estimate[2])))
       /\ FLeq(FAdd(FMul(FromInt(2), estimate[1]), estimate[2]), FromInt(16))
       /\ FLeq(estimate[2], FromInt(8))
       /\ FLeq(FZero, estimate[1])

\* the estimate of the 9-record scenario
C9_Witness ==
  /\ pc = "done"
  /\ ScenarioCall
  /\ FLess(FromInt(3), estimate[1])
  /\ FLess(estimate[1], FromInt(4))

\* C10: a neighbour at distance 0 does not dominate: a neighbour of the same
\* k-set at a distance d with 0 < d <= 1 has a weight at least as large, and
\* the estimate can differ from the zero-distance record's position.
C10_ZeroDistanceNotDominant ==
  pc \in {"weighted", "done"} =>
    \A i, j \in 1..Len(k_nearest) :
      (k_nearest[i][1] = 0 /\ 0 < k_nearest[j][1] /\ k_nearest[j][1] <= 1)
        => FLeq(weights[i], weights[j])

\* an estimate away from the position of the neighbour at distance 0
C10_Witness ==
  /\ pc = "done"
  /\ ValidCall
  /\ \E i, j \in 1..Len(k_nearest) :
       /\ k_nearest[i][1] = 0
       /\ k_nearest[j][1] = 1
       /\ estimate # PosF(k_nearest[i][2])

\* C11: an estimation call leaves the radio map (records, order, positions,
\* signal vectors) and the localizer's k as they were constructed, and after
\* any sequence of calls a call with a live vector returns what the earlier
\* calls with that vector returned.
C11_CallsLeaveLocalizerUnchanged ==
  /\ grid = built.grid
  /\ k = built.k
  /\ \A r1, r2 \in returned : r1[1] = r2[1] => r1[2] = r2[2]
  /\ callers[1].pc \in {"done", "raised"} =>
       \A r \in returned :
         r[1] = callers[1].tm_rssi => r[2] = Result(callers[1])

\* a call repeated after calls with two other live vectors, on a map of two
\* records that are equally far from the live vector at different positions
C11_Witness ==
  /\ callers[1].pc = "done"
  /\ k = 1
  /\ Len(grid) = 2
  /\ grid[1].position # grid[2].position
  /\ rssi_difference(grid[1].rssi, callers[1].tm_rssi)
       = rssi_difference(grid[2].rssi, callers[1].tm_rssi)
  /\ Cardinality(returned) = 3
  /\ \E r \in returned : r[1] = callers[1].tm_rssi

\* C12: when the calls of several callers interleave, each call gets at every
\* step what it gets when it runs alone on the localizer as constructed.
C12_InterleavedCallsAsAlone ==
  \A c \in Callers :
    LET call == callers[c]
        alone_nearest == find_k_nearest(impl, built.grid, built.k, call.tm_rssi)
        alone_weights == compute_weights(alone_nearest)
    IN /\ call.pc \in {"found", "weighted", "done"} =>
            /\ \A i \in 1..Len(built.grid) :
                 ~rssi_difference_raises(built.grid[i].rssi, call.tm_rssi)
            /\ call.k_nearest = alone_nearest
       /\ call.pc \in {"weighted", "done"} => call.weights = alone_weights
       /\ call.pc = "done" =>
            call.estimate = estimate_position(alone_nearest, alone_weights)
       /\ call.pc = "raised" =>
            /\ call.err = "IndexError"
            /\ \E i \in 1..Len(built.grid) :
                 rssi_difference_raises(built.grid[i].rssi, call.tm_rssi)

\* two calls with different live vectors in progress at once, one of them
\* past find_k_nearest when the other has finished its estimate
C12_Witness ==
  /\ callers[1].pc = "found"
  /\ callers[2].pc = "done"
  /\ callers[1].tm_rssi # callers[2].tm_rssi
  /\ k = 1
  /\ Len(grid) = 2
  /\ grid[1].position # grid[2].position
  /\ callers[1].k_nearest[1][1] = rssi_difference(grid[2].rssi, callers[1].tm_rssi)
  /\ callers[1].k_nearest[1][1] = rssi_difference(grid[1].rssi, callers[1].tm_rssi)

\* the component-wise mean of points given in tenths
Centroid(points) ==
  [c \in 1..Len(points[1]) |->
     FDiv(PySum(column(points, c)), FromInt(Len(points)))]

\* C13: when no initial guess is supplied the least-squares iteration starts
\* from the centroid of the anchor positions, for every anchor set.
C13_StartsFromCentroid ==
  npc = "estimated" => x0 = Centroid(dataset.emitters)

\* the 3D script's solve, started from (2, 2, 2)
C13_Witness ==
  /\ npc = "estimated"
  /\ program = "3D"
  /\ x0 = initial_guess_3d
  /\ Centroid(dataset.emitters) # initial_guess_3d

\* C14: with fewer than 4 anchors supplied in 3D the solve runs on the
\* supplied anchors (they are not replaced by other data) and its estimate is
\* flagged as ambiguous.
C14_FewAnchorsKept ==
  (npc \in {"returned", "estimated"} /\ 1 <= Len(emitters)
     /\ Len(emitters) < MinEmitters)
    => dataset.emitters = emitters

\* an estimate from the default dataset after three anchors were entered
C14_Witness ==
  /\ npc = "estimated"
  /\ Len(emitters) = 3
  /\ dataset = DefaultDataset
  /\ dataset.emitters # emitters

\* row i of the edge matrix, summed, and the edge matrix, summed
RowSum(i) == SumInt(edges[i])
RECURSIVE RowSums(_)
RowSums(n) == IF n = 0 THEN 0 ELSE RowSums(n - 1) + RowSum(n)

\* the percentages node_stats returns for origin i - 1, over all destinations
Percentages(i) ==
  [j \in 1..nb_nodes |->
     FDiv(FromInt(edges[i][j] * 100), FromInt(nodes[i]))]

\* the lowest-numbered destination with the largest count out of node id
MostTaken(id) ==
  CHOOSE j \in 0..(nb_nodes - 1) :
    /\ \A h \in 0..(nb_nodes - 1) : edges[id + 1][h + 1] <= edges[id + 1][j + 1]
    /\ \A h \in 0..(j - 1) : edges[id + 1][h + 1] < edges[id + 1][j + 1]

\* C16: move(id) returns True and makes id the current node exactly when
\* 0 <= id < n, returns False otherwise, and never raises an index error,
\* whatever n the graph was built with.
C16_MoveInRangeOnly ==
  outcome[1] = "move" =>
    IF 0 <= outcome[2] /\ outcome[2] < nb_nodes
    THEN outcome[3] = "True" /\ current_node_id = outcome[2]
    ELSE outcome[3] = "False"

\* move(2) raising IndexError on a markov.py graph of 2 nodes
C16_Witness ==
  /\ module = "markov"
  /\ nb_nodes = 2
  /\ outcome = <<"move", 2, "IndexError">>

\* C17: after any sequence of move calls every node's move counter is the
\* sum of its row of the edge matrix, the edge counts add up to the number
\* of moves that returned True, and the percentages of node_stats out of a
\* node with a recorded move add up to 100.
C17_CountersMatchEdges ==
  /\ \A i \in 1..nb_nodes : nodes[i] = RowSum(i)
  /\ RowSums(nb_nodes) = nb_true
  /\ \A i \in 1..nb_nodes :
       nodes[i] > 0 => PySum(Percentages(i)) = FromInt(100)

\* a node counted one move more than its row of edges holds
C17_Witness ==
  /\ module = "markov"
  /\ nb_nodes = 2
  /\ nb_true = 1
  /\ \E i \in 1..nb_nodes : nodes[i] = RowSum(i) + 1

\* C18: predict_next_move returns None exactly when no move has been
\* recorded out of the current node, and otherwise the lowest-numbered
\* destination whose count out of the current node is the largest.
C18_PredictsMostTaken ==
  outcome[1] = "predict_next_move" =>
    IF RowSum(current_node_id + 1) = 0
    THEN outcome[2].returns = "None"
    ELSE /\ outcome[2].returns = "node"
         /\ outcome[2].id = MostTaken(current_node_id)

\* predict_next_move raising IndexError after a recorded move
C18_Witness ==
  /\ module = "markov"
  /\ nb_nodes = 2
  /\ RowSum(current_node_id + 1) > 0
  /\ nodes[current_node_id + 1] = RowSum(current_node_id + 1)
  /\ outcome[1] = "predict_next_move"
  /\ outcome[2].returns = "IndexError"

\* the first components of a list of (distance, position) pairs
DistancesOf(pairs) == [i \in 1..Len(pairs) |-> pairs[i][1]]

\* records at the same distance stand in the radio map in the order of
\* their positions
TiesInPositionOrder ==
  \A i, j \in 1..Len(grid) :
    (i < j /\ PairOf(i)[1] = PairOf(j)[1])
      => PosBefore(grid[i].position, grid[j].position)

\* C19, as stated: the two implementations of find_k_nearest return the same
\* list for every radio map, live vector and k, also among tied records.
\* This fails: OffOnFingerp keeps tied records in the map's order,
\* FingerPrint2 orders them by position.
C19_SameNeighbours ==
  pc = "found" =>
    find_k_nearest("OffOn", grid, k, tm_rssi) = find_k_nearest("FP2", grid, k, tm_rssi)

\* C19, amended: the two implementations return lists of the same length
\* with the same distances in the same order, and the same list whenever the
\* records at equal distance stand in the radio map in ascending order of
\* position.
C19_SameDistancesAndUntiedNeighbours ==
  pc = "found" =>
    LET off == find_k_nearest("OffOn", grid, k, tm_rssi)
        fp2 == find_k_nearest("FP2", grid, k, tm_rssi)
    IN /\ k_nearest = (IF impl = "OffOn" THEN off ELSE fp2)
       /\ DistancesOf(off) = DistancesOf(fp2)
       /\ TiesInPositionOrder => off = fp2

\* two of three records selected, two records being equally far at different
\* positions that stand in ascending order, the map not sorted by distance
C19_Witness ==
  /\ pc = "found"
  /\ Len(grid) = 3
  /\ k = 2
  /\ TiesInPositionOrder
  /\ PairOf(1)[1] > PairOf(2)[1]
  /\ PairOf(2)[1] = PairOf(3)[1]
  /\ grid[2].position # grid[3].position

====
